---------------------------- MODULE Spec2Model ----------------------------
(***************************************************************************)
(* Model of plugins/modules/zabbix_api.py: API._is_method, API.call, main. *)
(* One run of the module is one invocation: main (or a direct caller)      *)
(* hands method, params and the check-mode flag to API.call, which         *)
(* validates the method name, splits it, resolves it on the remote-API     *)
(* handle, invokes it and reports through exit_json / fail_json.           *)
(*                                                                         *)
(* Strings are sequences of one-character strings.  Python values that     *)
(* differ in type are tagged records, so that they can be compared.        *)
(***************************************************************************)
EXTENDS Integers, Sequences, FiniteSets, TLC

\* Longest method string the callers supply.
MaxLen == 4

\* The characters of the model: two lowercase letters stand for [a-z], and
\* one uppercase letter, one digit, the dot and the line feed for the rest.
Lower == {"a", "b"}
Alphabet == Lower \cup {"A", "1", ".", "\n"}

Strings == UNION {[1..n -> Alphabet] : n \in 0..MaxLen}

\* Python values -----------------------------------------------------------

Str(s) == [type |-> "str", val |-> s]
None == [type |-> "NoneType", val |-> <<>>]
Dict(items) == [type |-> "dict", val |-> items]
EmptyDict == Dict({})

\* What a caller may pass as method (main always passes a string) and params.
MethodValues == {Str(s) : s \in Strings} \cup {None}
ParamDicts == {EmptyDict, Dict({<<"filter", "X">>})}

\* A local variable that is not (yet) bound, and a bound one.
Unbound == [bound |-> FALSE, val |-> <<>>]
Bound(v) == [bound |-> TRUE, val |-> v]

\* Exceptions ---------------------------------------------------------------

NoExc == [cls |-> "none", text |-> <<>>]
Exc(c, t) == [cls |-> c, text |-> t]

\* sys.exit() inside exit_json / fail_json raises SystemExit, a BaseException
\* that is not an Exception.
SystemExit == Exc("SystemExit", <<>>)

ExceptionClasses == {"Exception", "AttributeError", "UnboundLocalError",
                     "ValueError", "ConnectionError"}

UnboundLocalText ==
    <<"l", "o", "c", "a", "l", " ", "v", "a", "r", "i", "a", "b", "l", "e", " ",
      "'", "t", "a", "r", "g", "e", "t", "_", "o", "b", "j", "e", "c", "t", "'",
      " ", "r", "e", "f", "e", "r", "e", "n", "c", "e", "d", " ", "b", "e", "f",
      "o", "r", "e", " ", "a", "s", "s", "i", "g", "n", "m", "e", "n", "t">>

UnpackText ==
    <<"n", "o", "t", " ", "e", "n", "o", "u", "g", "h", " ", "v", "a", "l", "u",
      "e", "s", " ", "t", "o", " ", "u", "n", "p", "a", "c", "k">>

\* The remote-API handle -----------------------------------------------------

\* The objects the handle exposes and the operations each of them exposes.
zapi == (<<"a">> :> {<<"a">>, <<"b">>}) @@ (<<"b">> :> {})

\* The text of the AttributeError of a name the handle does not expose.
NoAttributeText(name) ==
    <<"n", "o", " ", "a", "t", "t", "r", "i", "b", "u", "t", "e", " ">> \o name

\* What a remote operation may return, and the errors it may raise.
Results == {"r1", "r2"}
RemoteErrors == {Exc("ConnectionError", <<"t", "i", "m", "e", "o", "u", "t">>),
                 Exc("Exception", <<>>)}

\* Pure functions of the module ----------------------------------------------

\* $ without re.MULTILINE: at the end of the string, or just before a line
\* feed that is the last character of the string.
AtDollar(s, e) ==
    \/ e = Len(s)
    \/ e = Len(s) - 1 /\ s[Len(s)] = "\n"

\* re.compile(r"^[a-z]+\.[a-z]+$").search(method) is not None: ^ anchors the
\* match at the first character, d is the place of the dot and e the last
\* character of the second group.
PatternSearch(s) ==
    \E d \in 1..Len(s), e \in 1..Len(s) :
        /\ 1 < d
        /\ \A k \in 1..(d - 1) : s[k] \in Lower
        /\ s[d] = "."
        /\ d < e
        /\ \A k \in (d + 1)..e : s[k] \in Lower
        /\ AtDollar(s, e)

\* "{0} is invalid value.".format(method)
InvalidMsg(m) ==
    m \o <<" ", "i", "s", " ", "i", "n", "v", "a", "l", "i", "d", " ", "v", "a",
           "l", "u", "e", ".">>

FailedPrefix ==
    <<"F", "a", "i", "l", "e", "d", " ", "t", "o", " ", "c", "a", "l", "l", " ",
      "a", "p", "i", ":", " ">>

\* "Failed to call api: %s" % e
FailedMsg(e) == FailedPrefix \o e.text

\* method.split("."): the segments between the dots.
RECURSIVE Split(_, _)
Split(s, sep) ==
    IF \A k \in 1..Len(s) : s[k] # sep
    THEN <<s>>
    ELSE LET i == CHOOSE k \in 1..Len(s) :
                      s[k] = sep /\ \A j \in 1..(k - 1) : s[j] # sep
         IN  <<SubSeq(s, 1, i - 1)>> \o Split(SubSeq(s, i + 1, Len(s)), sep)

\* State ------------------------------------------------------------------

VARIABLES
    pc,             \* the place of the run in main / call
    entry,          \* "none", "main" (the module entry point) or "call"
    supplied,       \* the params the caller supplied: Unbound when absent
    method,         \* call's parameter method
    params,         \* call's parameter params
    check_mode,     \* module.check_mode
    target_object,  \* call's local variables
    target_method,
    apireq,
    apimethod,
    res,
    exc,            \* the exception being raised, NoExc when none
    outcomes,       \* the JSON objects reported by exit_json / fail_json
    invocations,    \* the remote operations invoked, with their argument
    remote,         \* what the remote operation did: returned v / raised e
    steps,          \* the steps of call taken so far, in order
    fault           \* an exception other than SystemExit left call

vars == <<pc, entry, supplied, method, params, check_mode, target_object,
          target_method, apireq, apimethod, res, exc, outcomes, invocations,
          remote, steps, fault>>

locals == <<target_object, target_method, apireq, apimethod, res>>
inputs == <<entry, supplied, method, params, check_mode>>

Init ==
    /\ pc = "idle"
    /\ entry = "none"
    /\ supplied = Unbound
    /\ method = None
    /\ params = None
    /\ check_mode = FALSE
    /\ target_object = Unbound
    /\ target_method = Unbound
    /\ apireq = Unbound
    /\ apimethod = Unbound
    /\ res = Unbound
    /\ exc = NoExc
    /\ outcomes = <<>>
    /\ invocations = <<>>
    /\ remote = [kind |-> "none"]
    /\ steps = <<>>
    /\ fault = FALSE

\* Helpers of the actions ----------------------------------------------------

\* exit_json(**kwargs) / fail_json(msg=...): print the JSON object and call
\* sys.exit(), which raises SystemExit at the place of the call.
ExitJsonCheckMode == [changed |-> TRUE]
ExitJsonResult(r) == [changed |-> TRUE, result |-> r]
FailJson(msg) == [failed |-> TRUE, msg |-> msg]

Report(o, pre) ==
    /\ outcomes' = Append(outcomes, o)
    /\ steps' = steps \o pre \o <<"report">>

\* Mutants of the except clause: a bare except (which also catches
\* SystemExit), a clause that misses the errors of the remote operation, and
\* a clause that misses AttributeError.
ExceptCatchesBaseException(cls) == cls \in ExceptionClasses \cup {"SystemExit"}
ExceptCatchesLookupOnly(cls) ==
    cls \in {"AttributeError", "UnboundLocalError", "ValueError"}
ExceptCatchesNoAttributeError(cls) == cls \in ExceptionClasses \ {"AttributeError"}

\* except Exception as e
ExceptCatches(cls) == cls \in ExceptionClasses

\* A raise inside the try block of call.
Raise(e) ==
    /\ exc' = e
    /\ pc' = "unwind"

\* Mutant: the operation is called with a fresh empty mapping.
InvokeArgDropped(p) == EmptyDict

\* apimethod(params)
InvokeArg(p) == p

\* module.params["params"]: None when the task gives no params.
ModuleParam(s) == IF s.bound THEN s.val ELSE None

\* Actions ------------------------------------------------------------------

\* main: method and params from module.params, then api.call(method, params).
Main ==
    /\ pc = "idle"
    /\ \E m \in Strings, s \in {Unbound} \cup {Bound(d) : d \in ParamDicts},
          cm \in BOOLEAN :
          /\ method' = Str(m)
          /\ supplied' = s
          /\ params' = ModuleParam(s)
          /\ check_mode' = cm
    /\ entry' = "main"
    /\ pc' = "try"
    /\ UNCHANGED <<locals, exc, outcomes, invocations, remote, steps, fault>>

\* A caller of API.call other than main: any method value, and params given
\* or left to the default of the signature, params={}.
Call ==
    /\ pc = "idle"
    /\ \E m \in MethodValues, s \in {Unbound} \cup {Bound(d) : d \in ParamDicts},
          cm \in BOOLEAN :
          /\ method' = m
          /\ supplied' = s
          /\ params' = IF s.bound THEN s.val ELSE EmptyDict
          /\ check_mode' = cm
    /\ entry' = "call"
    /\ pc' = "try"
    /\ UNCHANGED <<locals, exc, outcomes, invocations, remote, steps, fault>>

\* if isinstance(method, str):
TryIsInstance ==
    /\ pc = "try"
    /\ pc' = IF method.type = "str" THEN "is_method" ELSE "check"
    /\ UNCHANGED <<inputs, locals, exc, outcomes, invocations, remote, steps,
                   fault>>

\* _is_method(method): fail_json when the pattern does not match, else True.
IsMethod ==
    /\ pc = "is_method"
    /\ IF PatternSearch(method.val)
       THEN /\ pc' = "split"
            /\ steps' = Append(steps, "validate")
            /\ UNCHANGED <<exc, outcomes>>
       ELSE /\ Report(FailJson(InvalidMsg(method.val)), <<"validate">>)
            /\ Raise(SystemExit)
    /\ UNCHANGED <<inputs, locals, invocations, remote, fault>>

\* target_object, target_method = method.split(".")
SplitMethod ==
    /\ pc = "split"
    /\ LET parts == Split(method.val, ".")
       IN  IF Len(parts) = 2
           THEN /\ target_object' = Bound(parts[1])
                /\ target_method' = Bound(parts[2])
                /\ pc' = "check"
                /\ UNCHANGED exc
           ELSE /\ Raise(Exc("ValueError", UnpackText))
                /\ UNCHANGED <<target_object, target_method>>
    /\ steps' = Append(steps, "split")
    /\ UNCHANGED <<inputs, apireq, apimethod, res, outcomes, invocations,
                   remote, fault>>

\* Mutant: the check-mode test is left out, every run goes on to resolve.
CheckModeIgnored ==
    /\ pc = "check"
    /\ pc' = "getobj"
    /\ steps' = Append(steps, "check_mode")
    /\ UNCHANGED <<inputs, locals, exc, outcomes, invocations, remote, fault>>

\* Mutant: the check-mode test is taken after both names are resolved, the
\* order validate, resolve, (skip or invoke), report.
CheckModeAfterResolve ==
    /\ pc = "check"
    /\ IF ~target_object.bound
       THEN /\ Raise(Exc("UnboundLocalError", UnboundLocalText))
            /\ UNCHANGED <<apireq, apimethod, steps, outcomes>>
       ELSE IF /\ target_object.val \in DOMAIN zapi
               /\ target_method.val \in zapi[target_object.val]
            THEN /\ apireq' = Bound(target_object.val)
                 /\ apimethod' = Bound(<<target_object.val, target_method.val>>)
                 /\ IF check_mode
                    THEN /\ outcomes' = Append(outcomes, ExitJsonCheckMode)
                         /\ steps' = steps \o <<"resolve_object",
                                       "resolve_method", "check_mode", "report">>
                         /\ Raise(SystemExit)
                    ELSE /\ pc' = "invoke"
                         /\ steps' = steps \o <<"resolve_object",
                                       "resolve_method", "check_mode">>
                         /\ UNCHANGED <<exc, outcomes>>
            ELSE /\ Raise(Exc("AttributeError",
                              NoAttributeText(target_object.val)))
                 /\ steps' = Append(steps, "resolve_object")
                 /\ UNCHANGED <<apireq, apimethod, outcomes>>
    /\ UNCHANGED <<inputs, target_object, target_method, res, invocations,
                   remote, fault>>

\* if self._module.check_mode: self._module.exit_json(changed=True)
CheckMode ==
    /\ pc = "check"
    /\ IF check_mode
       THEN /\ Report(ExitJsonCheckMode, <<"check_mode">>)
            /\ Raise(SystemExit)
       ELSE /\ pc' = "getobj"
            /\ steps' = Append(steps, "check_mode")
            /\ UNCHANGED <<exc, outcomes>>
    /\ UNCHANGED <<inputs, locals, invocations, remote, fault>>

\* apireq = getattr(self._zapi, target_object)
GetObject ==
    /\ pc = "getobj"
    /\ IF ~target_object.bound
       THEN /\ Raise(Exc("UnboundLocalError", UnboundLocalText))
            /\ UNCHANGED <<apireq, steps>>
       ELSE /\ steps' = Append(steps, "resolve_object")
            /\ IF target_object.val \in DOMAIN zapi
               THEN /\ apireq' = Bound(target_object.val)
                    /\ pc' = "getmethod"
                    /\ UNCHANGED exc
               ELSE /\ Raise(Exc("AttributeError",
                                 NoAttributeText(target_object.val)))
                    /\ UNCHANGED apireq
    /\ UNCHANGED <<inputs, target_object, target_method, apimethod, res,
                   outcomes, invocations, remote, fault>>

\* apimethod = getattr(apireq, target_method)
GetMethod ==
    /\ pc = "getmethod"
    /\ steps' = Append(steps, "resolve_method")
    /\ IF target_method.val \in zapi[apireq.val]
       THEN /\ apimethod' = Bound(<<apireq.val, target_method.val>>)
            /\ pc' = "invoke"
            /\ UNCHANGED exc
       ELSE /\ Raise(Exc("AttributeError", NoAttributeText(target_method.val)))
            /\ UNCHANGED apimethod
    /\ UNCHANGED <<inputs, target_object, target_method, apireq, res, outcomes,
                   invocations, remote, fault>>

Invoked ==
    [object |-> apimethod.val[1], action |-> apimethod.val[2],
     arg |-> InvokeArg(params)]

\* res = apimethod(params), the operation returning a value
InvokeReturns ==
    /\ pc = "invoke"
    /\ invocations' = Append(invocations, Invoked)
    /\ steps' = Append(steps, "invoke")
    /\ \E v \in Results :
          /\ res' = Bound(v)
          /\ remote' = [kind |-> "returned", val |-> v]
    /\ pc' = "exit"
    /\ UNCHANGED <<inputs, target_object, target_method, apireq, apimethod,
                   exc, outcomes, fault>>

\* res = apimethod(params), the operation raising an error
InvokeRaises ==
    /\ pc = "invoke"
    /\ invocations' = Append(invocations, Invoked)
    /\ steps' = Append(steps, "invoke")
    /\ \E e \in RemoteErrors :
          /\ Raise(e)
          /\ remote' = [kind |-> "raised", err |-> e]
    /\ UNCHANGED <<inputs, locals, outcomes, fault>>

\* self._module.exit_json(changed=True, result=res)
ExitJson ==
    /\ pc = "exit"
    /\ Report(ExitJsonResult(res.val), <<>>)
    /\ Raise(SystemExit)
    /\ UNCHANGED <<inputs, locals, invocations, remote, fault>>

\* The exception raised in the try block reaches the except clause: caught
\* there, or it leaves call (SystemExit ends the process, any other is a
\* fault of the caller).
Unwind ==
    /\ pc = "unwind"
    /\ IF ExceptCatches(exc.cls)
       THEN /\ pc' = "except"
            /\ UNCHANGED fault
       ELSE /\ pc' = "done"
            /\ fault' = (exc.cls # "SystemExit")
    /\ UNCHANGED <<inputs, locals, exc, outcomes, invocations, remote, steps>>

\* self._module.fail_json(msg="Failed to call api: %s" % e); its SystemExit
\* is raised in the handler and leaves call.
Except ==
    /\ pc = "except"
    /\ Report(FailJson(FailedMsg(exc)), <<"catch">>)
    /\ exc' = SystemExit
    /\ pc' = "done"
    /\ UNCHANGED <<inputs, locals, invocations, remote, fault>>

Next ==
    \/ Main
    \/ Call
    \/ TryIsInstance
    \/ IsMethod
    \/ SplitMethod
    \/ CheckMode
    \/ GetObject
    \/ GetMethod
    \/ InvokeReturns
    \/ InvokeRaises
    \/ ExitJson
    \/ Unwind
    \/ Except

Spec == Init /\ [][Next]_vars

\* Properties ---------------------------------------------------------------

Done == pc = "done"
IsStr == method.type = "str"

\* The <object>.<action> form of the data model: one or more lowercase
\* letters, one dot, one or more lowercase letters, and nothing else.
WellFormed(s) ==
    \E d \in 1..Len(s) :
        /\ 1 < d
        /\ d < Len(s)
        /\ s[d] = "."
        /\ \A k \in 1..Len(s) : k # d => s[k] \in Lower

\* The method is a string and the validator of the code lets it pass.
Validated == IsStr /\ PatternSearch(method.val)

IsFailure(o) == "failed" \in DOMAIN o
IsSuccess(o) == "changed" \in DOMAIN o /\ "failed" \notin DOMAIN o
HasPrefix(m, p) == Len(m) >= Len(p) /\ SubSeq(m, 1, Len(p)) = p
Occurs(x, q) == \E i \in 1..Len(q) : q[i] = x
Count(x, q) == Cardinality({i \in 1..Len(q) : q[i] = x})
Before(x, y, q) == \E i, j \in 1..Len(q) : i < j /\ q[i] = x /\ q[j] = y
Resolves ==
    /\ target_object.val \in DOMAIN zapi
    /\ target_method.val \in zapi[target_object.val]

\* C1: a method string that is not of the <object>.<action> form ends call
\* with the single Failure "<method> is invalid value." (no "Failed to call
\* api: " prefix), with no resolution and no remote operation.
C1_MalformedIsInvalidValue ==
    (Done /\ IsStr /\ ~WellFormed(method.val)) =>
        /\ outcomes = <<FailJson(InvalidMsg(method.val))>>
        /\ ~Occurs("resolve_object", steps)
        /\ ~Occurs("resolve_method", steps)
        /\ invocations = <<>>

\* C1 for the strings the validator of the code rejects (it lets pass the
\* well-formed strings and those with one line feed after them).
C1_RejectedIsInvalidValue ==
    (Done /\ IsStr /\ ~PatternSearch(method.val)) =>
        /\ outcomes = <<FailJson(InvalidMsg(method.val))>>
        /\ ~Occurs("resolve_object", steps)
        /\ ~Occurs("resolve_method", steps)
        /\ invocations = <<>>

\* The strings on which the validator and the <object>.<action> form differ
\* are the well-formed strings followed by one line feed.
ValidatorDiffersOnlyOnLineFeed ==
    (IsStr /\ PatternSearch(method.val) /\ ~WellFormed(method.val)) =>
        /\ method.val[Len(method.val)] = "\n"
        /\ WellFormed(SubSeq(method.val, 1, Len(method.val) - 1))

\* C2: check mode off, the method validated, both names resolved and the
\* operation returned v: one invocation, of the named operation, with the
\* caller's params as its argument, and the single outcome
\* {changed: true, result: v}.
C2_SuccessCarriesRawResult ==
    (Done /\ ~check_mode /\ Validated /\ remote.kind = "returned") =>
        /\ method.val = target_object.val \o <<".">> \o target_method.val
        /\ invocations = <<[object |-> target_object.val,
                            action |-> target_method.val,
                            arg |-> params]>>
        /\ supplied.bound => invocations[1].arg = supplied.val
        /\ outcomes = <<[changed |-> TRUE, result |-> remote.val]>>

C2_Witness ==
    /\ Done /\ ~check_mode /\ Validated /\ remote.kind = "returned"
    /\ supplied.bound /\ supplied.val # EmptyDict
    /\ target_object.val # target_method.val

\* C3: check mode on and the method validated: the single outcome is
\* {changed: true} with no result field and nothing is invoked, also for
\* names the handle does not expose.
C3_CheckModeSkipsInvocation ==
    (Done /\ check_mode /\ Validated) =>
        /\ outcomes = <<[changed |-> TRUE]>>
        /\ "result" \notin DOMAIN outcomes[1]
        /\ invocations = <<>>

C3_Witness ==
    /\ Done /\ check_mode /\ Validated
    /\ target_object.val \notin DOMAIN zapi
    /\ Len(outcomes) = 1

\* C4: the operation raised e: the single outcome is the Failure
\* "Failed to call api: " followed by the text of e, no Success is ever
\* reported and e does not leave call.
C4_RemoteErrorBecomesFailure ==
    remote.kind = "raised" =>
        /\ \A i \in 1..Len(outcomes) : ~IsSuccess(outcomes[i])
        /\ ~fault
        /\ Done => outcomes = <<FailJson(FailedPrefix \o remote.err.text)>>

C4_Witness ==
    /\ Done /\ remote.kind = "raised" /\ remote.err.text # <<>>
    /\ Len(outcomes) = 1

\* C5: every invocation, whatever its inputs and whatever the handle does,
\* goes on until it is done, and is done with exactly one outcome, a Success
\* or a Failure, reported as its last step; no exception but SystemExit
\* leaves call and no step is taken twice.
C5_ExactlyOneOutcome ==
    /\ Len(outcomes) <= 1
    /\ ~fault
    /\ \A i, j \in 1..Len(steps) : steps[i] = steps[j] => i = j
    /\ ~Done => ENABLED Next
    /\ Done =>
        /\ Len(outcomes) = 1
        /\ IsSuccess(outcomes[1]) # IsFailure(outcomes[1])
        /\ steps[Len(steps)] = "report"

C5_Witness ==
    /\ Done /\ ~IsStr /\ ~check_mode
    /\ Len(outcomes) = 1 /\ IsFailure(outcomes[1])

\* C6: from main with no params supplied, the operation is invoked with an
\* empty mapping.
C6_AbsentParamsAreEmptyMapping ==
    (entry = "main" /\ ~supplied.bound /\ invocations # <<>>) =>
        invocations[1].arg = EmptyDict

\* C7: the validator accepts a string exactly when it is of the
\* <object>.<action> form, and rejects every other string as
\* "<method> is invalid value.".
C7_ValidatorAcceptsExactlyWellFormed ==
    (IsStr /\ Occurs("validate", steps)) =>
        IF WellFormed(method.val)
        THEN ~(Len(steps) >= 2 /\ steps[2] = "report")
        ELSE /\ Len(steps) >= 2 /\ steps[2] = "report"
             /\ outcomes = <<FailJson(InvalidMsg(method.val))>>

\* C8: check mode off, the method validated, and the object or the action
\* is not exposed: the single outcome is a Failure whose message starts
\* with "Failed to call api: ", and nothing is invoked.
C8_ResolutionFailureIsGeneric ==
    (Done /\ ~check_mode /\ Validated /\ ~Resolves) =>
        /\ Len(outcomes) = 1
        /\ IsFailure(outcomes[1])
        /\ HasPrefix(outcomes[1].msg, FailedPrefix)
        /\ invocations = <<>>
        /\ ~fault

C8_Witness ==
    /\ Done /\ ~check_mode /\ Validated
    /\ target_object.val \in DOMAIN zapi
    /\ target_method.val \notin zapi[target_object.val]
    /\ Len(outcomes) = 1

\* C9 as stated: for every validated string both names are resolved, and
\* they are resolved before the check-mode decision is taken.
C9_ResolveBeforeCheckMode ==
    (Done /\ Validated) =>
        /\ Len(Split(method.val, ".")) = 2
        /\ Occurs("resolve_object", steps)
        /\ Occurs("resolve_method", steps)
        /\ Before("validate", "resolve_object", steps)
        /\ Before("resolve_method", "check_mode", steps)

\* C9 amended: a validated string is split into exactly two segments; the
\* steps are validate, split, check-mode decision and then, in check mode,
\* the report with no resolution at all, and otherwise resolve object,
\* resolve action (only if the object resolved), invoke (only if both
\* resolved), report.
C9_CheckModeBeforeResolve ==
    (Done /\ Validated) =>
        /\ Len(Split(method.val, ".")) = 2
        /\ target_object.val = Split(method.val, ".")[1]
        /\ target_method.val = Split(method.val, ".")[2]
        /\ IF check_mode
           THEN steps = <<"validate", "split", "check_mode", "report">>
           ELSE IF target_object.val \notin DOMAIN zapi
           THEN steps = <<"validate", "split", "check_mode",
                          "resolve_object", "catch", "report">>
           ELSE IF ~Resolves
           THEN steps = <<"validate", "split", "check_mode", "resolve_object",
                          "resolve_method", "catch", "report">>
           ELSE IF remote.kind = "returned"
           THEN steps = <<"validate", "split", "check_mode", "resolve_object",
                          "resolve_method", "invoke", "report">>
           ELSE steps = <<"validate", "split", "check_mode", "resolve_object",
                          "resolve_method", "invoke", "catch", "report">>

C9_Witness ==
    /\ Done /\ Validated /\ check_mode /\ Resolves
    /\ ~Occurs("resolve_object", steps)
    /\ Before("check_mode", "report", steps)

\* C10: check mode on and a method string that is not of the
\* <object>.<action> form: the outcome is the Failure
\* "<method> is invalid value.", never a Success.
C10_ValidationBeforeCheckMode ==
    (Done /\ check_mode /\ IsStr /\ ~WellFormed(method.val)) =>
        /\ outcomes = <<FailJson(InvalidMsg(method.val))>>
        /\ \A i \in 1..Len(outcomes) : ~IsSuccess(outcomes[i])

=============================================================================
